---- MODULE Spec2Model ----
(***************************************************************************)
(* A model of the run lifecycle monitor of the entities SDK:               *)
(*   HttpRunMonitor   (src/src/entities/utils/run_monitor.py)              *)
(*   MonitorLauncher  (src/src/entities/utils/monitor_launcher.py)         *)
(*                                                                         *)
(* One HttpRunMonitor instance is modelled.  Its fields are the variables  *)
(* monitor_thread, stop_event, last_status and on_action_required.  Every  *)
(* threading.Thread the monitor creates is a worker 1..MaxThreads with its *)
(* own program counter in the poll loop.  The callers of start() and       *)
(* stop() are the application thread App and the launcher threads that     *)
(* MonitorLauncher.start() spawns.  The two HTTP clients and the callbacks *)
(* are the environment: a fetch returns a value or raises, a callback      *)
(* returns or raises.  on_error is the error sink and returns normally.    *)
(*                                                                         *)
(* VectorStoreClient._request_with_retries (src/src/entities/clients/       *)
(* vectors.py) is modelled next to it as one call in progress; the monitor *)
(* and the request never touch each other's state.                         *)
(*                                                                         *)
(* Variables whose comment says "history" record what has happened (calls, *)
(* arguments) and are never read by the modelled code.                     *)
(***************************************************************************)
EXTENDS Integers, Sequences, FiniteSets, TLC

\* ------------------------------------------------------------ bounds
\* Thread objects the monitor may create over its life.
MaxThreads == 2
\* retrieve_run calls one worker may make.
MaxPolls == 2
\* Launcher threads (MonitorLauncher.start() calls).
MaxLaunch == 2
\* Distinct pending-action lists the actions client may return.
NumActionLists == 2

\* ------------------------------------------------------------ constants
None == "None"
\* entities.constants.platform (not among the source files): the values
\* the specification gives.
ACTION_REQUIRED_STATUS == "action_required"
TERMINAL_STATUSES == {"completed", "failed", "cancelled"}
\* The statuses the run status source returns in the model.
Statuses == {"queued", "running", "action_required", "completed"}

Workers == 1..MaxThreads
App == 0
Launchers == 1..MaxLaunch
Callers == {App} \cup Launchers
ActionLists == 1..NumActionLists
\* The four callback slots of HttpRunMonitor and MonitorLauncher.
Slots == {"on_status_change", "on_complete", "on_error", "on_action_required"}

VARIABLES
    \* HttpRunMonitor fields
    monitor_thread,      \* _monitor_thread: 0 is None, else a worker
    stop_event,          \* _stop_event.is_set()
    last_status,         \* _last_status
    on_action_required,  \* TRUE iff the on_action_required callback is set
    handlers,            \* the callback in each slot of the monitor: "caller",
                         \* "default" (a logging default of the launcher) or None
    \* MonitorLauncher
    launcher,            \* "none": the application built the monitor itself;
                         \* "unbuilt", "built", "init_raised": before and after
                         \* MonitorLauncher.__init__
    launch_args,         \* history: the callbacks given to MonitorLauncher
    \* VectorStoreClient._request_with_retries
    req_pc,              \* where the call is: "idle", "request", "sleep",
                         \* "returned", "raised"
    attempt,             \* the loop variable attempt
    responses,           \* history: the status codes of the responses received
    requests,            \* history: self.client.request calls made
    result,              \* what the call returned or raised ("unset" before)
    \* worker threads
    wpc,                 \* where each worker is in _monitor_loop
    current_status,      \* the local current_status of each worker
    pending_actions,     \* the local pending_actions of each worker (0: unbound)
    \* caller threads
    cpc,                 \* where each caller is in start() / stop()
    joinee,              \* the thread a caller is joining (0: none)
    \* history
    polls,               \* retrieve_run calls made by each worker
    failed_poll,         \* the poll of the worker at which retrieve_run raised
                         \* (0: none)
    iter,                \* callbacks invoked in the worker's current iteration
    fetched_now,         \* list get_pending_actions returned to the running
                         \* on_action_required call (0: none)
    n_complete,          \* on_complete invocations per worker
    completions,         \* on_complete invocations of the monitor, all workers
    sc_last,             \* the most recent on_status_change invocation of the
                         \* monitor: its new_status argument and how it ended
                         \* ("running", "returned", "raised"; "none" before)
    op_log,              \* the application's last two completed calls of the
                         \* monitor with their outcomes, most recent last
    stop_phase           \* "stopping": stop() is running, and no start() was in
                         \* progress or called since it began; "returned": that
                         \* stop() has returned and no start() has been called
                         \* since; "no" otherwise

request == <<req_pc, attempt, responses, requests, result>>
\* What no step of the monitor changes: its callbacks, the launcher that built
\* it, and the request of the vector store client.
setup == <<on_action_required, handlers, launcher, launch_args, request>>
monitor == <<monitor_thread, stop_event, last_status, setup>>
wstate == <<wpc, current_status, pending_actions>>
cstate == <<cpc, joinee>>
whist == <<polls, failed_poll, iter, fetched_now, n_complete, completions, sc_last>>
chist == <<op_log, stop_phase>>
vars == <<monitor, wstate, cstate, whist, chist>>

\* ------------------------------------------------------------ helpers
\* threading.Thread.is_alive(): started and not yet finished.
IsAlive(t) == wpc[t] \notin {"unborn", "created", "done"}

AliveWorkers == {t \in Workers : IsAlive(t)}

Created == {t \in Workers : wpc[t] # "unborn"}

\* A callback of the worker is executing.
InCallback(t) ==
    wpc[t] \in {"status_cb", "action_cb", "action_err_cb", "complete_cb", "run_err_cb"}

\* Mutant of is_active: the is_alive() test is missing.
is_active_no_alive ==
    /\ monitor_thread # 0
    /\ ~stop_event

\* Mutant of is_active: only the stop flag is tested.
is_active_flag_only == ~stop_event

\* HttpRunMonitor.is_active
is_active ==
    /\ monitor_thread # 0
    /\ IsAlive(monitor_thread)
    /\ ~stop_event

\* Occurrences of e in the sequence s.
Count(s, e) == Cardinality({i \in 1..Len(s) : s[i] = e})

\* The last two entries of a log.
Logged(log, op) == IF Len(log) < 2 THEN Append(log, op) ELSE <<log[2], op>>

LastOp == IF op_log = <<>> THEN "none" ELSE op_log[Len(op_log)]

\* ------------------------------------------------------------ Init
\* HttpRunMonitor.__init__
Construct ==
    /\ monitor_thread = 0
    /\ stop_event = FALSE
    /\ last_status = None
    /\ wpc = [t \in Workers |-> "unborn"]
    /\ current_status = [t \in Workers |-> None]
    /\ pending_actions = [t \in Workers |-> 0]
    /\ cpc = [c \in Callers |-> IF c = App THEN "idle" ELSE "unspawned"]
    /\ joinee = [c \in Callers |-> 0]
    /\ polls = [t \in Workers |-> 0]
    /\ failed_poll = [t \in Workers |-> 0]
    /\ iter = [t \in Workers |-> <<>>]
    /\ fetched_now = [t \in Workers |-> 0]
    /\ n_complete = [t \in Workers |-> 0]
    /\ completions = 0
    /\ sc_last = <<None, "none">>
    /\ op_log = <<>>
    /\ stop_phase = "no"

\* No call of _request_with_retries has been made.
NoRequest ==
    /\ req_pc = "idle"
    /\ attempt = 0
    /\ responses = <<>>
    /\ requests = 0
    /\ result = "unset"

\* Mutant of OrDefault: the caller's callback is ignored.
OrDefaultAlways(cb) == "default"

\* on_status_change=on_status_change or default_status_change, and the same
\* for the other three slots: cb is the caller's callback or None.
OrDefault(cb) == IF cb # None THEN cb ELSE "default"

\* The callbacks MonitorLauncher.__init__ passes to HttpRunMonitor.
MonitorHandlers(args) == [s \in Slots |-> OrDefault(args[s])]

\* No callback is given to MonitorLauncher.
NoArgs == [s \in Slots |-> None]

\* The callbacks an application may give to HttpRunMonitor itself:
\* on_action_required is optional.
DirectHandlers ==
    {h \in [Slots -> {"caller", None}] :
        \A s \in Slots \ {"on_action_required"} : h[s] = "caller"}

\* MonitorLauncher.__init__ has built the monitor, no callback given: every
\* slot holds its logging default, on_action_required included.
Init ==
    /\ Construct
    /\ NoRequest
    /\ launcher = "built"
    /\ launch_args = NoArgs
    /\ handlers = MonitorHandlers(NoArgs)
    /\ on_action_required = (handlers["on_action_required"] # None)

\* The application builds the monitor itself: on_action_required is optional.
InitDirect ==
    /\ Construct
    /\ NoRequest
    /\ launcher = "none"
    /\ launch_args = NoArgs
    /\ handlers \in DirectHandlers
    /\ on_action_required = (handlers["on_action_required"] # None)

\* Before MonitorLauncher.__init__: no monitor yet.
InitLauncher ==
    /\ Construct
    /\ NoRequest
    /\ launcher = "unbuilt"
    /\ launch_args = NoArgs
    /\ handlers = [s \in Slots |-> None]
    /\ on_action_required = FALSE

\* ------------------------------------------------------------ _monitor_loop
\* The decisions of the loop, one operator per condition of the code.

\* Mutant of LoopContinues: the loop has run out of time.
LoopContinuesNever == FALSE

\* Mutant of LoopContinues: the loop does not test the stop flag.
LoopContinuesAlways == TRUE

\* while not self._stop_event.is_set()
LoopContinues == ~stop_event

\* Mutant of StatusChanged: the comparison is dropped and every poll reports.
StatusChangedAlways(t) == TRUE

\* if self._last_status != current_status
StatusChanged(t) == last_status # current_status[t]

\* Mutant of WantsActions: the callback is not tested.
WantsActionsUnset(t) == current_status[t] = ACTION_REQUIRED_STATUS

\* Mutant of WantsActions: the action-required block is never entered.
WantsActionsNever(t) == FALSE

\* if current_status == ACTION_REQUIRED_STATUS and self.on_action_required
WantsActions(t) ==
    current_status[t] = ACTION_REQUIRED_STATUS /\ on_action_required

\* Mutant of IsTerminal: "not in" for "in".
IsTerminalNegated(t) == current_status[t] \notin TERMINAL_STATUSES

\* if current_status in TERMINAL_STATUSES
IsTerminal(t) == current_status[t] \in TERMINAL_STATUSES

\* Where the loop goes after the status-change block.
AfterStatus(t) == IF WantsActions(t) THEN "fetch" ELSE "terminal_check"

\* Mutant of BindPending: a list fetched earlier is kept instead of the fresh
\* one.
BindPendingCached(t, p) == IF pending_actions[t] # 0 THEN pending_actions[t] ELSE p

\* pending_actions = ...get_pending_actions(...): the value bound when the
\* client returns p.
BindPending(t, p) == p

\* The thread function returns: the thread is finished and its locals are gone.
Finish(t) ==
    /\ wpc' = [wpc EXCEPT ![t] = "done"]
    /\ current_status' = [current_status EXCEPT ![t] = None]
    /\ pending_actions' = [pending_actions EXCEPT ![t] = 0]

\* The loop goes on at pc; "done" is the end of the thread function.
Goto(t, pc) ==
    IF pc = "done"
    THEN Finish(t)
    ELSE /\ wpc' = [wpc EXCEPT ![t] = pc]
         /\ UNCHANGED <<current_status, pending_actions>>

\* The invocation of a callback, recorded.
Invoke(t, cb) == iter' = [iter EXCEPT ![t] = Append(@, cb)]

\* Mutant of WakeWithin: the stop flag is first tested after the first poll.
WakeWithinPollsFirst(t, cap) ==
    /\ wpc[t] \in {"delay", "sleep"}
    /\ IF LoopContinues \/ wpc[t] = "delay"
       THEN /\ polls[t] < cap
            /\ wpc' = [wpc EXCEPT ![t] = "retrieve"]
            /\ UNCHANGED <<current_status, pending_actions>>
       ELSE Finish(t)
    /\ UNCHANGED <<monitor, cstate, whist, chist>>

\* time.sleep(initial_delay) or time.sleep(check_interval) ends and the
\* while condition is evaluated; the worker makes at most cap polls.
WakeWithin(t, cap) ==
    /\ wpc[t] \in {"delay", "sleep"}
    /\ IF LoopContinues
       THEN /\ polls[t] < cap
            /\ wpc' = [wpc EXCEPT ![t] = "retrieve"]
            /\ UNCHANGED <<current_status, pending_actions>>
       ELSE Finish(t)
    /\ UNCHANGED <<monitor, cstate, whist, chist>>

Wake(t) == WakeWithin(t, MaxPolls)

\* run = self.runs_client.retrieve_run(self.run_id); current_status = run.status
\* where the run's status is one of S.
RetrieveFrom(t, S) ==
    /\ wpc[t] = "retrieve"
    /\ \E s \in S : current_status' = [current_status EXCEPT ![t] = s]
    /\ wpc' = [wpc EXCEPT ![t] = "compare"]
    /\ polls' = [polls EXCEPT ![t] = @ + 1]
    /\ iter' = [iter EXCEPT ![t] = <<>>]
    /\ UNCHANGED <<monitor, pending_actions, cstate, failed_poll, fetched_now,
                   n_complete, completions, sc_last, chist>>

RetrieveOk(t) == RetrieveFrom(t, Statuses)

\* retrieve_run raises: except Exception as e: self.on_error(...)
RetrieveRaises(t) ==
    /\ wpc[t] = "retrieve"
    /\ wpc' = [wpc EXCEPT ![t] = "run_err_cb"]
    /\ polls' = [polls EXCEPT ![t] = @ + 1]
    /\ failed_poll' = [failed_poll EXCEPT ![t] = polls[t] + 1]
    /\ iter' = [iter EXCEPT ![t] = <<"on_error_run">>]
    /\ UNCHANGED <<monitor, current_status, pending_actions, cstate, fetched_now,
                   n_complete, completions, sc_last, chist>>

\* if self._last_status != current_status:
\*     self.on_status_change(self.run_id, current_status, self._last_status, ...)
Compare(t) ==
    /\ wpc[t] = "compare"
    /\ IF StatusChanged(t)
       THEN /\ wpc' = [wpc EXCEPT ![t] = "status_cb"]
            /\ Invoke(t, "on_status_change")
            /\ sc_last' = <<current_status[t], "running">>
       ELSE /\ wpc' = [wpc EXCEPT ![t] = AfterStatus(t)]
            /\ UNCHANGED <<iter, sc_last>>
    /\ UNCHANGED <<monitor, current_status, pending_actions, cstate, polls,
                   failed_poll, fetched_now, n_complete, completions, chist>>

\* Mutant of StatusReturns: _last_status is not updated.
StatusReturnsNoUpdate(t) ==
    /\ wpc[t] = "status_cb"
    /\ wpc' = [wpc EXCEPT ![t] = AfterStatus(t)]
    /\ sc_last' = <<sc_last[1], "returned">>
    /\ UNCHANGED <<monitor, current_status, pending_actions, cstate, polls,
                   failed_poll, iter, fetched_now, n_complete, completions, chist>>

\* on_status_change returns; self._last_status = current_status
StatusReturns(t) ==
    /\ wpc[t] = "status_cb"
    /\ last_status' = current_status[t]
    /\ wpc' = [wpc EXCEPT ![t] = AfterStatus(t)]
    /\ sc_last' = <<sc_last[1], "returned">>
    /\ UNCHANGED <<monitor_thread, stop_event, setup, current_status,
                   pending_actions, cstate, polls, failed_poll, iter, fetched_now,
                   n_complete, completions, chist>>

\* Mutant of StatusRaises: the exception is not caught and ends the thread
\* without on_error.
StatusRaisesUncaught(t) ==
    /\ wpc[t] = "status_cb"
    /\ Finish(t)
    /\ UNCHANGED <<monitor, cstate, whist, chist>>

\* Mutant of StatusRaises: _last_status was assigned before the callback.
StatusRaisesUpdated(t) ==
    /\ wpc[t] = "status_cb"
    /\ wpc' = [wpc EXCEPT ![t] = "run_err_cb"]
    /\ last_status' = current_status[t]
    /\ Invoke(t, "on_error_run")
    /\ sc_last' = <<sc_last[1], "raised">>
    /\ UNCHANGED <<monitor_thread, stop_event, setup, current_status,
                   pending_actions, cstate, polls, failed_poll, fetched_now,
                   n_complete, completions, chist>>

\* on_status_change raises: the outer except invokes on_error
StatusRaises(t) ==
    /\ wpc[t] = "status_cb"
    /\ wpc' = [wpc EXCEPT ![t] = "run_err_cb"]
    /\ Invoke(t, "on_error_run")
    /\ sc_last' = <<sc_last[1], "raised">>
    /\ UNCHANGED <<monitor, current_status, pending_actions, cstate, polls,
                   failed_poll, fetched_now, n_complete, completions, chist>>

\* pending_actions = self.actions_client.get_pending_actions(self.run_id)
\* self.on_action_required(self.run_id, run.dict(), pending_actions)
FetchOk(t) ==
    /\ wpc[t] = "fetch"
    /\ \E p \in ActionLists :
          /\ pending_actions' = [pending_actions EXCEPT ![t] = BindPending(t, p)]
          /\ fetched_now' = [fetched_now EXCEPT ![t] = p]
    /\ wpc' = [wpc EXCEPT ![t] = "action_cb"]
    /\ Invoke(t, "on_action_required")
    /\ UNCHANGED <<monitor, current_status, cstate, polls, failed_poll, n_complete,
                   completions, sc_last, chist>>

\* get_pending_actions raises: except Exception as action_err: self.on_error(...)
FetchRaises(t) ==
    /\ wpc[t] = "fetch"
    /\ wpc' = [wpc EXCEPT ![t] = "action_err_cb"]
    /\ Invoke(t, "on_error_actions")
    /\ UNCHANGED <<monitor, current_status, pending_actions, cstate, polls,
                   failed_poll, fetched_now, n_complete, completions, sc_last, chist>>

\* on_action_required returns
ActionReturns(t) ==
    /\ wpc[t] = "action_cb"
    /\ wpc' = [wpc EXCEPT ![t] = "terminal_check"]
    /\ fetched_now' = [fetched_now EXCEPT ![t] = 0]
    /\ UNCHANGED <<monitor, current_status, pending_actions, cstate, polls,
                   failed_poll, iter, n_complete, completions, sc_last, chist>>

\* Mutant of ActionRaises: the exception of on_action_required reaches the
\* outer except.
ActionRaisesFatal(t) ==
    /\ wpc[t] = "action_cb"
    /\ wpc' = [wpc EXCEPT ![t] = "run_err_cb"]
    /\ fetched_now' = [fetched_now EXCEPT ![t] = 0]
    /\ Invoke(t, "on_error_run")
    /\ UNCHANGED <<monitor, current_status, pending_actions, cstate, polls,
                   failed_poll, n_complete, completions, sc_last, chist>>

\* on_action_required raises: the inner except invokes on_error
ActionRaises(t) ==
    /\ wpc[t] = "action_cb"
    /\ wpc' = [wpc EXCEPT ![t] = "action_err_cb"]
    /\ fetched_now' = [fetched_now EXCEPT ![t] = 0]
    /\ Invoke(t, "on_error_actions")
    /\ UNCHANGED <<monitor, current_status, pending_actions, cstate, polls,
                   failed_poll, n_complete, completions, sc_last, chist>>

\* Mutant of AfterActionError: a failed action fetch ends the loop.
AfterActionErrorBreak == "done"

\* Where the loop goes when on_error of the inner except has returned: on to
\* the terminal check.
AfterActionError == "terminal_check"

\* on_error of the inner except returns
ActionErrorReturns(t) ==
    /\ wpc[t] = "action_err_cb"
    /\ Goto(t, AfterActionError)
    /\ UNCHANGED <<monitor, cstate, whist, chist>>

\* if current_status in TERMINAL_STATUSES: self.on_complete(...)
\* else: time.sleep(self.check_interval)
TerminalCheck(t) ==
    /\ wpc[t] = "terminal_check"
    /\ IF IsTerminal(t)
       THEN /\ wpc' = [wpc EXCEPT ![t] = "complete_cb"]
            /\ n_complete' = [n_complete EXCEPT ![t] = @ + 1]
            /\ completions' = completions + 1
            /\ Invoke(t, "on_complete")
       ELSE /\ wpc' = [wpc EXCEPT ![t] = "sleep"]
            /\ UNCHANGED <<n_complete, completions, iter>>
    /\ UNCHANGED <<monitor, current_status, pending_actions, cstate, polls,
                   failed_poll, fetched_now, sc_last, chist>>

\* Mutant of AfterComplete: the status is examined again after on_complete.
AfterCompleteRecheck == "compare"

\* Mutant of AfterComplete: the break is missing.
AfterCompleteNoBreak == "sleep"

\* Where the loop goes when on_complete has returned: break.
AfterComplete == "done"

\* on_complete returns
CompleteReturns(t) ==
    /\ wpc[t] = "complete_cb"
    /\ Goto(t, AfterComplete)
    /\ UNCHANGED <<monitor, cstate, whist, chist>>

\* on_complete raises: the outer except invokes on_error
CompleteRaises(t) ==
    /\ wpc[t] = "complete_cb"
    /\ wpc' = [wpc EXCEPT ![t] = "run_err_cb"]
    /\ Invoke(t, "on_error_run")
    /\ UNCHANGED <<monitor, current_status, pending_actions, cstate, polls,
                   failed_poll, fetched_now, n_complete, completions, sc_last, chist>>

\* Mutant of AfterRunError: the break is missing and the fetch is retried.
AfterRunErrorRetry == "sleep"

\* Where the loop goes when on_error of the outer except has returned: break.
AfterRunError == "done"

\* on_error of the outer except returns
RunErrorReturns(t) ==
    /\ wpc[t] = "run_err_cb"
    /\ Goto(t, AfterRunError)
    /\ UNCHANGED <<monitor, cstate, whist, chist>>

\* The steps of the loop but the wake-up and the successful retrieve_run.
LoopBody(t) ==
    \/ RetrieveRaises(t)
    \/ Compare(t)
    \/ StatusReturns(t)
    \/ StatusRaises(t)
    \/ FetchOk(t)
    \/ FetchRaises(t)
    \/ ActionReturns(t)
    \/ ActionRaises(t)
    \/ ActionErrorReturns(t)
    \/ TerminalCheck(t)
    \/ CompleteReturns(t)
    \/ CompleteRaises(t)
    \/ RunErrorReturns(t)

\* A callback of worker t calls self.stop(): the flag is set, and
\* self._monitor_thread.join() on the calling thread itself raises
\* RuntimeError inside the callback.  The callback goes on with the exception:
\* it lets it pass (the Raises step of the callback) or handles it (the
\* Returns step).
StopInCallback(t) ==
    /\ wpc[t] \in {"status_cb", "action_cb", "complete_cb"}
    /\ monitor_thread = t
    /\ Count(iter[t], "stop_raised") = 0
    /\ stop_event' = TRUE
    /\ Invoke(t, "stop_raised")
    /\ UNCHANGED <<monitor_thread, last_status, setup, wstate, cstate, polls,
                   failed_poll, fetched_now, n_complete, completions, sc_last, chist>>

\* The steps of a worker when every fetch and callback returns normally.
HappyWorker(t) ==
    \/ Wake(t)
    \/ RetrieveOk(t)
    \/ Compare(t)
    \/ StatusReturns(t)
    \/ FetchOk(t)
    \/ ActionReturns(t)
    \/ TerminalCheck(t)
    \/ CompleteReturns(t)

WorkerNext(t) ==
    \/ Wake(t)
    \/ RetrieveOk(t)
    \/ LoopBody(t)

\* The run status source goes through a fixed sequence of statuses, one per
\* poll of a worker.
Script == <<"queued", "queued", "running", "action_required", "running", "completed">>

WakeScripted(t) == WakeWithin(t, Len(Script))

RetrieveScripted(t) == RetrieveFrom(t, {Script[polls[t] + 1]})

WorkerScripted(t) ==
    \/ WakeScripted(t)
    \/ RetrieveScripted(t)
    \/ LoopBody(t)

\* ------------------------------------------------------------ start()
\* Where a caller is before its call and after it.
Ready(c) == IF c = App THEN "idle" ELSE "spawned"

\* A caller is inside start(), past the guard.
StartInProgress ==
    \E k \in Callers : cpc[k] \in {"start_clear", "start_create", "start_run"}

\* Mutant of Return: an exception of monitor.start() leaves the launcher
\* thread and reaches the application.
ReturnPropagates(c, outcome) ==
    /\ cpc' = [cpc EXCEPT ![c] = IF c = App THEN "idle" ELSE "finished"]
    /\ op_log' = IF c = App \/ outcome = "start_raised"
                 THEN Logged(op_log, outcome) ELSE op_log
    /\ stop_phase' =
          IF outcome = "stop" /\ stop_phase = "stopping" THEN "returned" ELSE "no"

\* The call returns or raises.  The application's call is recorded with its
\* outcome.  A launcher thread ends: an exception of monitor.start() is
\* caught and logged ("logged").
Return(c, outcome) ==
    /\ cpc' = [cpc EXCEPT ![c] =
                  IF c = App THEN "idle"
                  ELSE IF outcome = "start_raised" THEN "logged" ELSE "finished"]
    /\ op_log' = IF c = App THEN Logged(op_log, outcome) ELSE op_log
    /\ stop_phase' =
          IF outcome = "stop" /\ stop_phase = "stopping" THEN "returned" ELSE "no"

\* Mutant of AlreadyRunning: the guard is missing.
AlreadyRunningNever == FALSE

\* if self._monitor_thread and self._monitor_thread.is_alive(): return
AlreadyRunning == monitor_thread # 0 /\ IsAlive(monitor_thread)

\* The model creates at most MaxThreads threads: a call that will create one
\* begins only while one is left.
ThreadLeft ==
    Cardinality(Created)
      + Cardinality({c \in Callers : cpc[c] \in {"start_clear", "start_create"}})
    < MaxThreads

StartCheck(c) ==
    /\ cpc[c] = Ready(c)
    /\ IF AlreadyRunning
       THEN Return(c, "start_noop")
       ELSE /\ ThreadLeft
            /\ cpc' = [cpc EXCEPT ![c] = "start_clear"]
            /\ stop_phase' = "no"
            /\ UNCHANGED op_log
    /\ UNCHANGED <<monitor, wstate, joinee, whist>>

\* Mutant of StartClear: the stop flag is not cleared.
StartNoClear(c) ==
    /\ cpc[c] = "start_clear"
    /\ cpc' = [cpc EXCEPT ![c] = "start_create"]
    /\ UNCHANGED <<monitor, wstate, joinee, whist, chist>>

\* Mutant of StartClear: start() also forgets the last observed status.
StartClearResets(c) ==
    /\ cpc[c] = "start_clear"
    /\ stop_event' = FALSE
    /\ last_status' = None
    /\ cpc' = [cpc EXCEPT ![c] = "start_create"]
    /\ UNCHANGED <<monitor_thread, setup, wstate, joinee, whist, chist>>

\* self._stop_event.clear()
StartClear(c) ==
    /\ cpc[c] = "start_clear"
    /\ stop_event' = FALSE
    /\ cpc' = [cpc EXCEPT ![c] = "start_create"]
    /\ UNCHANGED <<monitor_thread, last_status, setup, wstate, joinee,
                   whist, chist>>

\* The per-worker history of the threads that have ended is dropped when a new
\* thread is created; completions keeps the monitor's count.
Forget(h, zero) == [t \in Workers |-> IF wpc[t] = "done" THEN zero ELSE h[t]]

\* self._monitor_thread = threading.Thread(target=self._monitor_loop, daemon=True)
StartCreate(c) ==
    /\ cpc[c] = "start_create"
    /\ LET new == Cardinality(Created) + 1
       IN  /\ new \in Workers
           /\ monitor_thread' = new
           /\ wpc' = [wpc EXCEPT ![new] = "created"]
    /\ cpc' = [cpc EXCEPT ![c] = "start_run"]
    /\ polls' = Forget(polls, 0)
    /\ failed_poll' = Forget(failed_poll, 0)
    /\ iter' = Forget(iter, <<>>)
    /\ n_complete' = Forget(n_complete, 0)
    /\ UNCHANGED <<stop_event, last_status, setup, current_status,
                   pending_actions, joinee, fetched_now, completions, sc_last, chist>>

\* self._monitor_thread.start(): the field is read again; Thread.start() on a
\* thread that was already started raises RuntimeError.
StartRun(c) ==
    /\ cpc[c] = "start_run"
    /\ IF wpc[monitor_thread] = "created"
       THEN /\ wpc' = [wpc EXCEPT ![monitor_thread] = "delay"]
            /\ Return(c, "start")
       ELSE /\ Return(c, "start_raised")
            /\ UNCHANGED wpc
    /\ UNCHANGED <<monitor, current_status, pending_actions, joinee, whist>>

Start(c) == StartCheck(c) \/ StartClear(c) \/ StartCreate(c) \/ StartRun(c)

\* ------------------------------------------------------------ stop()
\* Mutant of StopSet: stop() also forgets the last observed status.
StopSetResets(c) ==
    /\ cpc[c] = "idle"
    /\ stop_event' = TRUE
    /\ last_status' = None
    /\ cpc' = [cpc EXCEPT ![c] = "stop_check"]
    /\ stop_phase' = IF StartInProgress THEN "no" ELSE "stopping"
    /\ UNCHANGED <<monitor_thread, setup, wstate, joinee, whist, op_log>>

\* self._stop_event.set()
StopSet(c) ==
    /\ cpc[c] = "idle"
    /\ stop_event' = TRUE
    /\ cpc' = [cpc EXCEPT ![c] = "stop_check"]
    /\ stop_phase' = IF StartInProgress THEN "no" ELSE "stopping"
    /\ UNCHANGED <<monitor_thread, last_status, setup, wstate, joinee,
                   whist, op_log>>

\* if self._monitor_thread: self._monitor_thread.join()
\* Thread.join() on a thread that was not started raises RuntimeError.
StopCheck(c) ==
    /\ cpc[c] = "stop_check"
    /\ IF monitor_thread = 0
       THEN /\ Return(c, "stop")
            /\ UNCHANGED joinee
       ELSE IF wpc[monitor_thread] = "created"
       THEN /\ Return(c, "stop_raised")
            /\ UNCHANGED joinee
       ELSE /\ cpc' = [cpc EXCEPT ![c] = "stop_join"]
            /\ joinee' = [joinee EXCEPT ![c] = monitor_thread]
            /\ UNCHANGED chist
    /\ UNCHANGED <<monitor, wstate, whist>>

\* join() returns once the joined thread has finished
StopJoin(c) ==
    /\ cpc[c] = "stop_join"
    /\ wpc[joinee[c]] = "done"
    /\ joinee' = [joinee EXCEPT ![c] = 0]
    /\ Return(c, "stop")
    /\ UNCHANGED <<monitor, wstate, whist>>

Stop(c) == StopSet(c) \/ StopCheck(c) \/ StopJoin(c)

\* ------------------------------------------------------------ MonitorLauncher
\* MonitorLauncher.__init__(client, actions_client, run_id, on_...=args,
\* events=events): self.monitor = self.events.HttpRunMonitor(...).  With
\* events left None the attribute access raises AttributeError, which
\* nothing in __init__ catches: the application's call raises.
LauncherInit ==
    /\ launcher = "unbuilt"
    /\ cpc[App] = "idle"
    /\ \E args \in [Slots -> {"caller", None}], events \in {"events", None} :
          IF events = None
          THEN /\ launcher' = "init_raised"
               /\ op_log' = Logged(op_log, "init_raised")
               /\ UNCHANGED <<on_action_required, handlers, launch_args>>
          ELSE /\ launcher' = "built"
               /\ launch_args' = args
               /\ handlers' = MonitorHandlers(args)
               /\ on_action_required' = (MonitorHandlers(args)["on_action_required"] # None)
               /\ UNCHANGED op_log
    /\ UNCHANGED <<monitor_thread, stop_event, last_status, request, wstate, cstate,
                   whist, stop_phase>>

\* MonitorLauncher.start(): t = threading.Thread(target=self._monitor_loop);
\* t.start().  The launcher thread then calls self.monitor.start() inside
\* try/except.
LauncherStart ==
    /\ launcher = "built"
    /\ cpc[App] = "idle"
    /\ \E l \in Launchers :
          /\ cpc[l] = "unspawned"
          /\ \A k \in Launchers : k < l => cpc[k] # "unspawned"
          /\ cpc' = [cpc EXCEPT ![l] = "spawned"]
    /\ UNCHANGED <<monitor, wstate, joinee, whist, chist>>

\* ------------------------------------------------------------ VectorStoreClient
\* retries = 3
retries == 3

\* The status codes the server answers with in the model.
StatusCodes == {200, 201, 204, 400, 401, 403, 404, 409, 422, 429, 500, 502, 503, 504}

\* response.raise_for_status() returns without raising.
PassesStatus(code) == code \in 200..299

\* Mutant of ShouldRetry: the attempt number is not tested.
ShouldRetryAnyAttempt(code, att) == code \in {500, 503}

\* if response.status_code in {500, 503} and attempt < retries - 1
ShouldRetry(code, att) == code \in {500, 503} /\ att < retries - 1

\* _request_with_retries(method, url, **kwargs) is called.
Call ==
    /\ req_pc \in {"idle", "returned", "raised"}
    /\ req_pc' = "request"
    /\ attempt' = 0
    /\ responses' = <<>>
    /\ requests' = 0
    /\ result' = "unset"
    /\ UNCHANGED <<monitor_thread, stop_event, last_status, on_action_required,
                   handlers, launcher, launch_args, wstate, cstate, whist, chist>>

\* response = self.client.request(...) returns a response;
\* response.raise_for_status(); return response, or the except clause.
RequestResponds ==
    /\ req_pc = "request"
    /\ requests' = requests + 1
    /\ \E code \in StatusCodes :
          /\ responses' = Append(responses, code)
          /\ IF PassesStatus(code)
             THEN req_pc' = "returned" /\ result' = "response"
             ELSE IF ShouldRetry(code, attempt)
             THEN req_pc' = "sleep" /\ UNCHANGED result
             ELSE req_pc' = "raised" /\ result' = "HTTPStatusError"
    /\ UNCHANGED <<monitor_thread, stop_event, last_status, on_action_required,
                   handlers, launcher, launch_args, attempt, wstate, cstate, whist,
                   chist>>

\* self.client.request(...) raises an exception that is not an
\* HTTPStatusError (a transport error): no except clause matches.
RequestFails ==
    /\ req_pc = "request"
    /\ requests' = requests + 1
    /\ req_pc' = "raised"
    /\ result' = "exception"
    /\ UNCHANGED <<monitor_thread, stop_event, last_status, on_action_required,
                   handlers, launcher, launch_args, attempt, responses, wstate,
                   cstate, whist, chist>>

\* time.sleep(2 ** attempt) ends and the for loop goes on: the next attempt,
\* or the end of the loop, after which the function returns None.
Backoff ==
    /\ req_pc = "sleep"
    /\ attempt' = attempt + 1
    /\ IF attempt + 1 < retries
       THEN req_pc' = "request" /\ UNCHANGED result
       ELSE req_pc' = "returned" /\ result' = None
    /\ UNCHANGED <<monitor_thread, stop_event, last_status, on_action_required,
                   handlers, launcher, launch_args, responses, requests, wstate,
                   cstate, whist, chist>>

NextRetry == Call \/ RequestResponds \/ RequestFails \/ Backoff

\* A caller uses _request_with_retries, one call after the other.
SpecRetry == Init /\ [][NextRetry]_vars

\* ------------------------------------------------------------ specifications
\* The application starts the monitor through MonitorLauncher and stops it
\* with monitor.stop(): the launcher threads and the application thread use
\* the monitor concurrently.
Next ==
    \/ \E t \in Workers : WorkerNext(t)
    \/ \E l \in Launchers : Start(l)
    \/ Stop(App)
    \/ LauncherStart

Spec == Init /\ [][Next]_vars

\* One application thread uses an HttpRunMonitor directly: its calls of
\* start() and stop() follow one another.
NextDirect ==
    \/ \E t \in Workers : WorkerNext(t)
    \/ Start(App)
    \/ Stop(App)

SpecDirect == InitDirect /\ [][NextDirect]_vars

\* Threads are scheduled fairly, and every fetch and callback returns.
FairDirect == SpecDirect /\ \A t \in Workers : WF_vars(WorkerNext(t))

\* As FairDirect, and a caller inside stop() goes on running.
FairStop ==
    /\ SpecDirect
    /\ \A t \in Workers : WF_vars(WorkerNext(t))
    /\ WF_vars(StopCheck(App) \/ StopJoin(App))

\* The application constructs a MonitorLauncher, launches it once and may
\* stop the monitor.
LaunchOnce == LauncherStart /\ cpc[1] = "unspawned"

NextLauncher ==
    \/ LauncherInit
    \/ LaunchOnce
    \/ \E l \in Launchers : Start(l)
    \/ \E t \in Workers : WorkerNext(t)
    \/ launcher = "built" /\ Stop(App)

SpecLauncher == InitLauncher /\ [][NextLauncher]_vars

\* As SpecDirect, and the callbacks may call stop() of their monitor.
NextSelfStop ==
    \/ NextDirect
    \/ \E t \in Workers : StopInCallback(t)

SpecSelfStop == InitDirect /\ [][NextSelfStop]_vars

\* The application only starts the monitor, every fetch and callback returns
\* normally, and the worker is scheduled fairly.
NextHappy ==
    \/ \E t \in Workers : HappyWorker(t)
    \/ Start(App)

FairHappy ==
    /\ InitDirect
    /\ [][NextHappy]_vars
    /\ \A t \in Workers : WF_vars(HappyWorker(t))

\* An application uses an HttpRunMonitor with all four callbacks on a run
\* whose status source follows Script.
InitScript == InitDirect /\ on_action_required

NextScript ==
    \/ \E t \in Workers : WorkerScripted(t)
    \/ Start(App)
    \/ Stop(App)

SpecScript == InitScript /\ [][NextScript]_vars

\* ------------------------------------------------------------ claims
\* on_status_change, on_action_required or on_complete is invoked by worker t
\* in this step.
Invoked(t, cb) == Count(iter'[t], cb) > Count(iter[t], cb)

\* Worker t moves in this step.
Moves(t) == wpc'[t] # wpc[t]

\* C1: on_status_change is invoked exactly once in a poll whose status
\* differs from the status observed before (_last_status, None at first), and
\* not at all in a poll whose status equals it: the invocation happens in the
\* comparison of the iteration and nowhere else, at most once per iteration.
C1_StatusChangeIffDiffers ==
    [][\A t \in Workers :
          /\ (wpc[t] = "compare" /\ Moves(t)) =>
                (Invoked(t, "on_status_change") <=> current_status[t] # last_status)
          /\ wpc[t] # "compare" => ~Invoked(t, "on_status_change")
          /\ Count(iter'[t], "on_status_change") <= 1]_vars

\* A second poll of a worker returned the status already observed, and the
\* iteration went past the comparison without on_status_change.
C1_Witness ==
    \E t \in Workers :
        /\ polls[t] = 2
        /\ wpc[t] = "terminal_check"
        /\ current_status[t] = last_status
        /\ iter[t] = <<>>

\* C2 as stated: on_complete is invoked at most once over the life of the
\* monitor instance, and only in an iteration whose status is terminal.
C2_AtMostOncePerInstance ==
    /\ completions <= 1
    /\ \A t \in Workers :
          wpc[t] = "complete_cb" => current_status[t] \in TERMINAL_STATUSES

\* C2 amended: each worker (each loop begun by start()) invokes on_complete at
\* most once, and only in an iteration whose status is terminal.
C2_AtMostOncePerWorker ==
    \A t \in Workers :
        /\ n_complete[t] <= 1
        /\ wpc[t] = "complete_cb" =>
              /\ current_status[t] \in TERMINAL_STATUSES
              /\ Count(iter[t], "on_complete") = 1

\* on_complete is running for the second time in the life of the monitor, in
\* a worker that invoked it once.
C2_Witness ==
    \E t \in Workers :
        /\ wpc[t] = "complete_cb"
        /\ n_complete[t] = 1
        /\ completions = 2

\* A poll of the monitor has returned a terminal status.
TerminalObserved ==
    \/ completions > 0
    \/ \E t \in Workers : current_status[t] \in TERMINAL_STATUSES

\* The iteration of worker t ends in this step.
EndsIteration(t) == wpc[t] \notin {"delay", "sleep"} /\ wpc'[t] \in {"done", "sleep"}

\* C3 as stated: once a poll has returned a terminal status, on_complete is
\* invoked in that iteration and the monitor never calls retrieve_run again.
C3_NoPollAfterTerminal ==
    [][/\ TerminalObserved => polls' = polls
       /\ \A t \in Workers :
             (current_status[t] \in TERMINAL_STATUSES /\ EndsIteration(t)) =>
                 Count(iter[t], "on_complete") = 1]_vars

\* C3 amended: the worker whose poll returned a terminal status never calls
\* retrieve_run again, and it invokes on_complete in that iteration unless
\* on_status_change raised in it.
C3_WorkerStopsAfterTerminal ==
    [][\A t \in Workers :
          current_status[t] \in TERMINAL_STATUSES =>
             /\ polls'[t] = polls[t]
             /\ EndsIteration(t) =>
                   \/ Count(iter[t], "on_complete") = 1
                   \/ iter[t] = <<"on_status_change", "on_error_run">>]_vars

\* A worker invoked on_complete and ended, and a later worker of the same
\* monitor has polled.
C3_Witness ==
    \E t, u \in Workers :
        /\ t < u
        /\ wpc[t] = "done"
        /\ completions = 1
        /\ n_complete[u] = 0
        /\ polls[u] >= 1

\* C4: at most one polling worker thread of the monitor is alive.
C4_AtMostOneWorker == Cardinality(AliveWorkers) <= 1

\* C5: a start() that follows a start() of the same caller while the worker is
\* alive changes nothing: no thread is created, the stop flag is not cleared,
\* the call returns, and exactly one worker is alive after it.
C5_SecondStartNoOp ==
    [][(/\ StartCheck(App)
        /\ LastOp \in {"start", "start_noop"}
        /\ IsAlive(monitor_thread)) =>
           /\ UNCHANGED <<wpc, monitor_thread, stop_event>>
           /\ cpc'[App] = "idle"
           /\ LastOp' = "start_noop"
           /\ Cardinality(AliveWorkers') = 1]_vars

\* start() created the worker, the next start() returned at its guard, and
\* the one worker is alive.
C5_Witness ==
    /\ op_log = <<"start", "start_noop">>
    /\ Cardinality(Created) = 1
    /\ Cardinality(AliveWorkers) = 1

\* C6: an iteration whose status is ACTION_REQUIRED_STATUS, with
\* on_action_required set, invokes on_action_required exactly once unless the
\* fetch raised (or on_status_change raised before it), also when the status
\* is unchanged, and the argument is the list fetched in that iteration.
C6_ActionRequiredFresh ==
    \A t \in Workers :
        /\ Count(iter[t], "on_action_required") <= 1
        /\ wpc[t] = "action_cb" =>
              /\ fetched_now[t] \in ActionLists
              /\ pending_actions[t] = fetched_now[t]
              /\ Count(iter[t], "on_action_required") = 1
        /\ (/\ wpc[t] \in {"terminal_check", "sleep"}
            /\ current_status[t] = ACTION_REQUIRED_STATUS
            /\ on_action_required
            /\ Count(iter[t], "on_error_actions") = 0) =>
              Count(iter[t], "on_action_required") = 1

\* on_action_required runs in a second iteration whose status did not change,
\* with the second list of the actions client.
C6_Witness ==
    \E t \in Workers :
        /\ wpc[t] = "action_cb"
        /\ polls[t] = 2
        /\ iter[t] = <<"on_action_required">>
        /\ fetched_now[t] = 2
        /\ pending_actions[t] = 2

\* C7: when retrieve_run raises on the first poll of a worker, on_error is
\* invoked exactly once, no other callback is invoked, no further poll is
\* made, and the worker ends for good: is_active() is false from then on
\* while this worker is the monitor's thread.
C7_FirstPollFailure ==
    /\ [](\A t \in Workers :
             failed_poll[t] = 1 =>
                /\ polls[t] = 1
                /\ iter[t] = <<"on_error_run">>
                /\ n_complete[t] = 0
                /\ wpc[t] \in {"run_err_cb", "done"})
    /\ \A t \in Workers :
          (failed_poll[t] = 1) ~>
              [](wpc[t] = "done" /\ (monitor_thread = t => ~is_active))

\* The first poll of the monitor's thread raised and the thread has ended.
C7_Witness ==
    \E t \in Workers :
        /\ failed_poll[t] = 1
        /\ wpc[t] = "done"
        /\ monitor_thread = t
        /\ ~is_active

\* C8: a retrieve_run failure at any poll ends the loop: on_error is invoked
\* once for it, no poll and no other callback follows, and the worker's next
\* step is its end.
C8_RunFetchFailureFatal ==
    [][\A t \in Workers :
          /\ (wpc[t] = "retrieve" /\ wpc'[t] = "run_err_cb") =>
                /\ failed_poll'[t] = polls'[t]
                /\ iter'[t] = <<"on_error_run">>
          /\ failed_poll[t] # 0 =>
                /\ wpc[t] \in {"run_err_cb", "done"}
                /\ wpc'[t] = "done" \/ ~Moves(t)
                /\ wpc[t] = "run_err_cb" =>
                      /\ polls'[t] = polls[t]
                      /\ iter'[t] = iter[t]
                      /\ iter[t] = <<"on_error_run">>]_vars

\* The second poll of a worker raised, on_error was invoked and the worker
\* has ended.
C8_Witness ==
    \E t \in Workers :
        /\ failed_poll[t] = 2
        /\ polls[t] = 2
        /\ iter[t] = <<"on_error_run">>
        /\ wpc[t] = "done"

\* get_pending_actions raised in the current iteration of worker t.
ActionFetchFailed(t) ==
    /\ Count(iter[t], "on_error_actions") = 1
    /\ Count(iter[t], "on_action_required") = 0

C10_StopBeforeStart ==
    [][/\ (Created = {} /\ cpc[App] = "idle" /\ cpc'[App] = "stop_check") =>
             /\ Created' = {}
             /\ monitor_thread' = 0
             /\ ~is_active'
       /\ (Created = {} /\ cpc[App] = "stop_check" /\ cpc'[App] # "stop_check") =>
             /\ cpc'[App] = "idle"
             /\ LastOp' = "stop"
             /\ Created' = {}
             /\ monitor_thread' = 0
             /\ ~is_active'
             /\ \A t \in Workers : iter'[t] = <<>> /\ polls'[t] = 0
       /\ (LastOp = "stop" /\ Created = {1} /\ cpc[App] = "start_run"
             /\ cpc'[App] # "start_run") =>
             /\ LastOp' = "start"
             /\ wpc'[1] = "delay"
             /\ ~stop_event'
             /\ is_active']_vars

\* stop() came first, start() after it, and the worker it started has polled.
C10_Witness ==
    /\ op_log = <<"stop", "start">>
    /\ Created = {1}
    /\ polls[1] >= 1

\* C11: when stop() has returned (and start() is not called again, nor was
\* in progress), no worker of the monitor is alive, and no retrieve_run call
\* and no callback invocation happens.
C11_StopJoinsWorker ==
    [][/\ stop_phase' = "returned" => AliveWorkers' = {}
       /\ (stop_phase = "returned" /\ stop_phase' = "returned") =>
             /\ polls' = polls
             /\ iter' = iter]_vars

\* C12: no two callbacks of the monitor execute at the same time.
C12_CallbacksSequential ==
    Cardinality({t \in Workers : InCallback(t)}) <= 1

\* C13: _last_status changes only in the step in which on_status_change
\* returns to a worker, in an iteration whose polled status differs from it;
\* it becomes that polled status, on_status_change was invoked exactly once
\* in the iteration, and no step of start(), stop() or an error path changes
\* it.
C13_LastStatusPaired ==
    [][last_status' # last_status =>
          \E t \in Workers :
              /\ wpc[t] = "status_cb"
              /\ Moves(t)
              /\ wpc'[t] \notin {"run_err_cb", "action_err_cb", "done"}
              /\ current_status[t] # last_status
              /\ last_status' = current_status[t]
              /\ Count(iter[t], "on_status_change") = 1
              /\ iter'[t] = iter[t]
              /\ cpc' = cpc]_vars

\* The second poll of a worker returned another status than the first,
\* on_status_change returned and _last_status is the new status.
C13_Witness ==
    \E t \in Workers :
        /\ polls[t] = 2
        /\ wpc[t] \in {"fetch", "terminal_check"}
        /\ iter[t] = <<"on_status_change">>
        /\ last_status = current_status[t]

\* The step of worker t reports a failure of the run fetch or of a callback
\* of the outer try: on_error is invoked and the worker is in it.
ReportsRunError(t) ==
    /\ wpc'[t] = "run_err_cb"
    /\ iter'[t] # <<>>
    /\ iter'[t][Len(iter'[t])] = "on_error_run"
    /\ Len(iter'[t]) = (IF wpc[t] = "retrieve" THEN 1 ELSE Len(iter[t]) + 1)

\* The step of worker t reports a failure inside the inner try.
ReportsActionError(t) ==
    /\ wpc'[t] = "action_err_cb"
    /\ iter'[t] = Append(iter[t], "on_error_actions")

C15_LaunchFireAndForget ==
    [][/\ (\E l \in Launchers : cpc[l] = "unspawned" /\ cpc'[l] = "spawned") =>
             /\ cpc'[App] = "idle"
             /\ UNCHANGED <<monitor, wstate, whist, chist>>
       /\ \A l \in Launchers :
             /\ (cpc[l] = "start_run" /\ cpc'[l] # "start_run"
                   /\ wpc[monitor_thread] # "created") =>
                   /\ cpc'[l] = "logged"
                   /\ cpc'[App] = cpc[App]
                   /\ op_log' = op_log
             /\ (cpc'[l] = "logged" /\ cpc[l] # "logged") =>
                   cpc[l] = "start_run" /\ wpc[monitor_thread] # "created"
       /\ LastOp' # "start_raised"]_vars

\* The monitor's start() raised in a launcher thread and was logged.
C15_Witness ==
    /\ \E l \in Launchers : cpc[l] = "logged"
    /\ cpc[App] = "idle"
    /\ LastOp # "start_raised"

\* C16: the construction of a MonitorLauncher never raises to the
\* application, also when the events handle is not supplied.
C16_SetupFailureLogged == launcher # "init_raised" /\ LastOp # "init_raised"

\* C17: every callback slot of a launcher-built monitor holds the caller's
\* callback when one was given and the logging default otherwise;
\* on_action_required is always set, and an iteration whose status is
\* ACTION_REQUIRED_STATUS fetches the pending actions (on_action_required is
\* invoked, or on_error for the failed fetch).
C17_CallbacksOrDefaults ==
    launcher = "built" =>
        /\ \A s \in Slots :
              handlers[s] = (IF launch_args[s] # None THEN "caller" ELSE "default")
        /\ on_action_required
        /\ \A t \in Workers :
              (/\ wpc[t] \in {"terminal_check", "sleep"}
               /\ current_status[t] = ACTION_REQUIRED_STATUS) =>
                  \/ Count(iter[t], "on_action_required") = 1
                  \/ Count(iter[t], "on_error_actions") = 1

\* A launcher given on_complete but not on_action_required built the
\* monitor, and its worker is in the default on_action_required at a second
\* poll whose status is unchanged.
C17_Witness ==
    /\ launcher = "built"
    /\ launch_args["on_complete"] = "caller"
    /\ handlers["on_complete"] = "caller"
    /\ launch_args["on_action_required"] = None
    /\ handlers["on_action_required"] = "default"
    /\ \E t \in Workers :
          /\ wpc[t] = "action_cb"
          /\ polls[t] = 2
          /\ iter[t] = <<"on_action_required">>

\* The callbacks the worked example expects in each of its six polls.
ExpectedCalls ==
    << <<"on_status_change">>,
       <<>>,
       <<"on_status_change">>,
       <<"on_status_change", "on_action_required">>,
       <<"on_status_change">>,
       <<"on_status_change", "on_complete">> >>

\* The old status the worked example expects on_status_change to get at
\* poll k.
ExpectedOld(k) == IF k = 1 THEN None ELSE Script[k - 1]

\* on_error was invoked in the current iteration of worker t.
ErrorInIteration(t) ==
    Count(iter[t], "on_error_run") + Count(iter[t], "on_error_actions") > 0

\* C18: the first worker of a fresh monitor, on a run whose polls return
\* Script, invokes on_status_change at polls 1, 3, 4, 5 and 6 (five calls)
\* with the new status of the poll and the status of the poll before (None
\* at first) as the old one, on_action_required once at poll 4, on_complete
\* once at poll 6, and no on_error in an iteration in which nothing raised;
\* it makes at most six polls, and exactly six when it ends without a stop.
C18_WorkedExample ==
    (polls[1] >= 1 /\ failed_poll[1] = 0) =>
        /\ polls[1] <= 6
        /\ wpc[1] = "status_cb" =>
              /\ polls[1] # 2
              /\ current_status[1] = Script[polls[1]]
              /\ last_status = ExpectedOld(polls[1])
        /\ (wpc[1] \in {"sleep", "done"} /\ ~ErrorInIteration(1)) =>
              iter[1] = ExpectedCalls[polls[1]]
        /\ wpc[1] = "sleep" => polls[1] < 6
        /\ wpc[1] = "complete_cb" => polls[1] = 6 /\ n_complete[1] = 1
        /\ (wpc[1] = "done" /\ ~ErrorInIteration(1) /\ op_log = <<"start">>
              /\ cpc[App] = "idle") =>
              /\ polls[1] = 6
              /\ n_complete[1] = 1
              /\ last_status = "completed"

\* The first worker made its six polls, invoked on_complete at the sixth and
\* ended; the application called start() only.
C18_Witness ==
    /\ wpc[1] = "done"
    /\ polls[1] = 6
    /\ iter[1] = <<"on_status_change", "on_complete">>
    /\ n_complete[1] = 1
    /\ completions = 1
    /\ last_status = "completed"
    /\ op_log = <<"start">>

\* on_status_change or on_complete raised in the current iteration of worker
\* t: on_error of the outer except follows a callback.
OuterCallbackThrew(t) ==
    /\ Len(iter[t]) >= 2
    /\ iter[t][Len(iter[t])] = "on_error_run"

\* on_action_required raised in the current iteration of worker t: on_error
\* of the inner except follows it.
ActionCallbackThrew(t) ==
    \E i \in 1..(Len(iter[t]) - 1) :
        iter[t][i] = "on_action_required" /\ iter[t][i + 1] = "on_error_actions"

Stopping == cpc[App] \in {"stop_check", "stop_join"}

\* C20: while stop() runs the flag is set and no worker begins a poll
\* iteration: a worker that leaves its sleep ends without a poll, and a worker
\* in an iteration goes on through it (its callbacks may fire) to the sleep;
\* with fetches and callbacks returning, the worker ends and stop() returns.
C20_CooperativeStop ==
    /\ [][Stopping =>
             /\ stop_event
             /\ \A t \in Workers :
                   /\ (wpc[t] \in {"delay", "sleep"} /\ Moves(t)) =>
                         /\ wpc'[t] = "done"
                         /\ polls'[t] = polls[t]
                         /\ iter'[t] = iter[t]
                   /\ (wpc'[t] = "retrieve" => wpc[t] = "retrieve")
                   /\ (polls'[t] # polls[t] => wpc[t] = "retrieve")]_vars
    /\ (cpc[App] = "stop_join") ~> (cpc[App] = "idle" /\ LastOp = "stop")

\* stop() has returned after a worker that polled once, saw a status that
\* is not terminal and then ended at the loop test.
C20_Witness ==
    /\ op_log = <<"start", "stop">>
    /\ wpc[1] = "done"
    /\ polls[1] = 1
    /\ iter[1] = <<"on_status_change">>
    /\ last_status = "running"
    /\ stop_event

\* Worker t ends in this step.
Exits(t) == wpc[t] # "done" /\ wpc'[t] = "done"

C22_NoActionsWithoutCallback ==
    ~on_action_required =>
        \A t \in Workers :
            /\ wpc[t] \notin {"fetch", "action_cb", "action_err_cb"}
            /\ pending_actions[t] = 0
            /\ fetched_now[t] = 0
            /\ Count(iter[t], "on_action_required") = 0
            /\ Count(iter[t], "on_error_actions") = 0
            /\ (current_status[t] = ACTION_REQUIRED_STATUS
                  /\ wpc[t] \in {"terminal_check", "sleep"}) =>
                  iter[t] \in {<<>>, <<"on_status_change">>}
            /\ (current_status[t] = ACTION_REQUIRED_STATUS) =>
                  wpc[t] \notin {"complete_cb", "done"}

\* Without on_action_required, a second poll returned ACTION_REQUIRED_STATUS
\* again and the worker went to its sleep without any callback.
C22_Witness ==
    /\ ~on_action_required
    /\ \E t \in Workers :
          /\ polls[t] = 2
          /\ wpc[t] = "sleep"
          /\ current_status[t] = ACTION_REQUIRED_STATUS
          /\ last_status = ACTION_REQUIRED_STATUS
          /\ iter[t] = <<>>

\* C23: a worker in its initial delay has made no poll and invoked no
\* callback, and when the stop flag is set as the delay ends the worker ends
\* at once, still without a poll or a callback.
C23_StopDuringInitialDelay ==
    [][\A t \in Workers :
          wpc[t] = "delay" =>
              /\ polls[t] = 0
              /\ iter[t] = <<>>
              /\ (stop_event /\ Moves(t)) =>
                    /\ wpc'[t] = "done"
                    /\ polls'[t] = 0
                    /\ iter'[t] = <<>>
                    /\ UNCHANGED <<last_status, completions, sc_last>>]_vars

\* start(), then stop() before the delay of the worker ended: stop() has
\* returned, the worker has ended, and nothing was polled or invoked.
C23_Witness ==
    /\ op_log = <<"start", "stop">>
    /\ wpc[1] = "done"
    /\ polls[1] = 0
    /\ iter[1] = <<>>
    /\ last_status = None
    /\ sc_last = <<None, "none">>
    /\ completions = 0

\* C24: a callback that calls stop() of its monitor gets no exception from
\* it.
C24_StopInsideCallback ==
    \A t \in Workers : Count(iter[t], "stop_raised") = 0

\* The place of a callback in the order of an iteration.
Rank(cb) ==
    CASE cb = "on_status_change" -> 1
      [] cb = "on_action_required" -> 2
      [] cb = "on_error_actions" -> 3
      [] cb = "on_complete" -> 4
      [] cb = "on_error_run" -> 5

\* The callbacks of the current iteration of worker t were invoked in the
\* order on_status_change, on_action_required, on_error of the action block,
\* on_complete, on_error of the outer except, each at most once.
InOrder(t) ==
    \A i, j \in 1..Len(iter[t]) : i < j => Rank(iter[t][i]) < Rank(iter[t][j])

\* C25 as stated: the callbacks of an iteration come in the fixed order and
\* on_complete is the last callback the worker invokes.
C25_OrderCompleteLast ==
    \A t \in Workers :
        /\ InOrder(t)
        /\ Count(iter[t], "on_complete") = 1 =>
              /\ iter[t][Len(iter[t])] = "on_complete"
              /\ wpc[t] \in {"complete_cb", "done"}

\* C25 amended: the callbacks of an iteration come in the fixed order:
\* on_status_change, then on_action_required (and the on_error for its
\* exception) or the on_error of a failed action fetch, then on_complete;
\* after on_complete the worker invokes nothing but the on_error for an
\* exception of on_complete itself, and ends.
C25_OrderCompleteLastUnlessRaises ==
    \A t \in Workers :
        /\ InOrder(t)
        /\ Count(iter[t], "on_complete") = 1 =>
              /\ \/ iter[t][Len(iter[t])] = "on_complete"
                 \/ /\ iter[t][Len(iter[t])] = "on_error_run"
                    /\ iter[t][Len(iter[t]) - 1] = "on_complete"
              /\ wpc[t] \in {"complete_cb", "run_err_cb", "done"}
              /\ wpc[t] = "complete_cb" => iter[t][Len(iter[t])] = "on_complete"

\* on_complete raised after on_status_change in a terminal iteration and
\* on_error is running after it.
C25_Witness ==
    \E t \in Workers :
        /\ wpc[t] = "run_err_cb"
        /\ iter[t] = <<"on_status_change", "on_complete", "on_error_run">>
        /\ current_status[t] \in TERMINAL_STATUSES

\* Worker t invokes on_status_change in this step, with current_status[t] as
\* new_status and _last_status as old_status.
InvokesStatusChange(t) == wpc[t] = "compare" /\ wpc'[t] = "status_cb"

\* C26 as stated: the old_status of every on_status_change invocation is the
\* new_status of the invocation before it, None for the first, and new_status
\* differs from old_status.
C26_StatusChain ==
    [][\A t \in Workers :
          InvokesStatusChange(t) =>
              /\ last_status = sc_last[1]
              /\ current_status[t] # last_status]_vars

\* C26 amended: new_status differs from old_status; old_status is None for
\* the first invocation, the new_status of the invocation before when that
\* one returned normally, and not that new_status when it raised
\* (_last_status was not updated).
C26_StatusChainOfReturned ==
    [][\A t \in Workers :
          InvokesStatusChange(t) =>
              /\ current_status[t] # last_status
              /\ sc_last' = <<current_status[t], "running">>
              /\ sc_last[2] # "running"
              /\ sc_last[2] = "none" => last_status = None
              /\ sc_last[2] = "returned" => last_status = sc_last[1]
              /\ sc_last[2] = "raised" => last_status # sc_last[1]]_vars

\* on_status_change raised in the first worker; the monitor was started
\* again and its second worker is about to invoke on_status_change with an
\* old_status that is not the new_status of the invocation that raised.
C26_Witness ==
    /\ wpc[1] = "done"
    /\ wpc[2] = "compare"
    /\ sc_last[2] = "raised"
    /\ last_status # sc_last[1]
    /\ current_status[2] # last_status

\* C27 as stated: no step of start() or stop() changes _last_status, and once
\* on_status_change has been invoked with a status, no later invocation (with
\* a single worker alive at a time) gets None as old_status.
C27_NeverNoneAgain ==
    [][/\ cpc' # cpc => last_status' = last_status
       /\ \A t \in Workers :
             (InvokesStatusChange(t) /\ sc_last[2] \in {"returned", "raised"}) =>
                 last_status # None]_vars

\* C27 amended: no step of start() or stop() changes _last_status, and once
\* on_status_change has returned for a status _last_status is never None
\* again; the first poll of a
\* worker started after another has ended is compared with the status
\* observed before: on_status_change is not invoked when the status is the
\* same, and is invoked with that status as old_status when it differs.
C27_LastStatusSurvivesRestart ==
    [][/\ cpc' # cpc => last_status' = last_status
       /\ last_status # None => last_status' # None
       /\ \A t \in Workers :
             (wpc[t] = "compare" /\ Moves(t) /\ polls[t] = 1 /\ last_status # None) =>
                 /\ current_status[t] = last_status => ~Invoked(t, "on_status_change")
                 /\ current_status[t] # last_status =>
                       /\ Invoked(t, "on_status_change")
                       /\ last_status' = last_status]_vars

\* The monitor was stopped and started again; the first poll of its second
\* worker returned the status observed before the restart, and the
\* iteration went past the comparison without on_status_change.
C27_Witness ==
    /\ op_log = <<"stop", "start">>
    /\ wpc[1] = "done"
    /\ wpc[2] \in {"fetch", "terminal_check"}
    /\ polls[2] = 1
    /\ iter[2] = <<>>
    /\ current_status[2] = last_status

\* C28: when on_status_change raises, _last_status keeps its value, on_error
\* is invoked once, neither on_action_required nor on_complete is invoked in
\* the iteration, whatever the polled status, and the worker ends.
C28_StatusChangeRaises ==
    [][\A t \in Workers :
          /\ (wpc[t] = "status_cb" /\ Moves(t)
                /\ wpc'[t] \notin {"fetch", "terminal_check"}) =>
                /\ wpc'[t] = "run_err_cb"
                /\ last_status' = last_status
                /\ last_status' # current_status[t]
                /\ iter'[t] = <<"on_status_change", "on_error_run">>
          /\ (wpc[t] = "run_err_cb"
                /\ iter[t] = <<"on_status_change", "on_error_run">>) =>
                /\ n_complete[t] = 0
                /\ last_status # current_status[t]
                /\ Moves(t) =>
                      /\ wpc'[t] = "done"
                      /\ iter'[t] = iter[t]
                      /\ polls'[t] = polls[t]
                      /\ last_status' = last_status
                      /\ completions' = completions]_vars

\* on_status_change raised at a first poll that returned a terminal status:
\* on_error is running, _last_status is still None and on_complete was not
\* invoked.
C28_Witness ==
    \E t \in Workers :
        /\ wpc[t] = "run_err_cb"
        /\ current_status[t] \in TERMINAL_STATUSES
        /\ iter[t] = <<"on_status_change", "on_error_run">>
        /\ last_status = None
        /\ completions = 0

\* C29: when the application only starts the monitor and every fetch and
\* callback returns normally, a worker that polled a terminal status leads,
\* under fair scheduling of the worker, to on_complete having been invoked,
\* the worker having ended and is_active() being false for that thread, for
\* ever after; the stop flag is never set.
C29_TerminalEndsWorker ==
    \A t \in Workers :
        /\ (current_status[t] \in TERMINAL_STATUSES /\ n_complete[t] = 0) ~>
              (n_complete[t] = 1)
        /\ (current_status[t] \in TERMINAL_STATUSES) ~>
              [](/\ wpc[t] = "done"
                 /\ completions >= 1
                 /\ ~stop_event
                 /\ monitor_thread = t => ~is_active)

\* The worker polled a terminal status, invoked on_complete and ended: the
\* monitor still refers to it, the stop flag is clear and is_active() is
\* false.
C29_Witness ==
    /\ monitor_thread = 1
    /\ wpc[1] = "done"
    /\ n_complete[1] = 1
    /\ completions = 1
    /\ ~stop_event
    /\ ~is_active

\* The status codes of the responses of the current call, without the last.
EarlierResponses == {responses[i] : i \in 1..(Len(responses) - 1)}

LastResponse == responses[Len(responses)]

\* C30: a call of _request_with_retries issues at most 3 requests, a further
\* request only after a response 500 or 503; another error status, a 500 or
\* 503 at the third attempt, or an exception that is not a status error is
\* raised at once; the call ends returning a response that passed
\* raise_for_status or raising, and never returns None.
C30_RetriesBounded ==
    /\ requests <= 3
    /\ attempt < 3
    /\ EarlierResponses \subseteq {500, 503}
    /\ (requests > Len(responses)) =>
          /\ requests = Len(responses) + 1
          /\ req_pc = "raised"
          /\ result = "exception"
    /\ (req_pc \in {"request", "sleep"} /\ responses # <<>>) =>
          /\ LastResponse \in {500, 503}
          /\ requests < 3
    /\ (requests = Len(responses) /\ requests > 0 /\ ~PassesStatus(LastResponse)
          /\ (LastResponse \notin {500, 503} \/ requests = 3)) =>
          /\ req_pc = "raised"
          /\ result = "HTTPStatusError"
    /\ req_pc = "returned" =>
          /\ result = "response"
          /\ responses # <<>>
          /\ PassesStatus(LastResponse)
    /\ req_pc = "raised" => result \in {"HTTPStatusError", "exception"}
    /\ result # None

\* Three requests were answered 500, 503 and 500: the third status error is
\* raised to the caller.
C30_Witness ==
    /\ responses = <<500, 503, 500>>
    /\ requests = 3
    /\ req_pc = "raised"
    /\ result = "HTTPStatusError"

====
